---- MODULE Spec2Model ----
(***************************************************************************)
(* Location resolution and trip search of the cab server.                  *)
(*                                                                         *)
(*   services/location.py   geocode_location (Candidate Discovery),        *)
(*                          resolve_location_by_place_id (Detail           *)
(*                          Resolver), get_location_with_disambiguation    *)
(*                          (the interactive orchestrator)                 *)
(*   server.py              search_cabs (the trip request)                 *)
(*   services/api_client.py search_cabs (the booking search call)          *)
(*                                                                         *)
(* server.py imports resolve_location (the stateless orchestrator) from    *)
(* services/location.py, which does not define it: that one function is    *)
(* modelled from section 4.4 of the specification.                         *)
(*                                                                         *)
(* Four callers are modelled, one per behaviour: an interactive call, a    *)
(* trip request, and callers that invoke the Detail Resolver and the       *)
(* Discovery function directly.                                            *)
(*                                                                         *)
(* A text is a sequence of characters, so that strip() is computed.        *)
(* Optional[X] is <<>> (None) or <<x>>.  Identifiers are strings.          *)
(***************************************************************************)
EXTENDS Integers, Sequences, FiniteSets, TLC

\* ------------------------------------------------------------------ bounds
\* Longest prediction list the autocomplete provider answers with.
MaxPred == 3
\* Refined-query recursions of one interactive call that are explored.
MaxDepth == 2
\* Calls of resolve_location_by_place_id one direct caller makes in a row.
MaxCalls == 3

\* --------------------------------------------------------------- constants
CUSTOM == "__CUSTOM__"
\* A JSON key that is missing, and a JSON null.
Absent == "<absent>"
Null == "<null>"
\* A response.data that is empty: `not place_id` holds of it.
NoData == ""

Roles == {"source", "destination"}
Chars == {" ", "a"}

RECURSIVE SeqsUpTo(_, _)
SeqsUpTo(S, n) ==
    IF n = 0 THEN {<<>>}
    ELSE LET shorter == SeqsUpTo(S, n - 1)
         IN  shorter \cup {Append(s, x) : s \in {t \in shorter : Len(t) = n - 1}, x \in S}

\* The texts a caller or the human types: empty, whitespace only, plain, and
\* one that strip() shortens.
Texts == {<<>>, <<" ">>, <<"a">>, <<" ", "a">>}

\* ------------------------------------------------------------ str helpers
RECURSIVE LStrip(_)
LStrip(t) == IF t # <<>> /\ Head(t) = " " THEN LStrip(Tail(t)) ELSE t

RECURSIVE RStrip(_)
RStrip(t) ==
    IF t # <<>> /\ t[Len(t)] = " " THEN RStrip(SubSeq(t, 1, Len(t) - 1)) ELSE t

\* str.strip()
Strip(t) == RStrip(LStrip(t))

\* `not query or not query.strip()`
\* Variant: `if not query`, the strip() test is missing.
IsBlankMut(query) == query = <<>>
IsBlank(query) == query = <<>> \/ Strip(query) = <<>>

\* ----------------------------------------------------- the two providers
\* One prediction of the autocomplete provider: place_id and description are
\* required keys, structured_formatting.main_text is optional.
PredFull  == [place_id |-> "p1", description |-> "d1", main_text |-> "m1"]
PredShort == [place_id |-> "p2", description |-> "d2", main_text |-> Absent]
PredBad   == [place_id |-> Absent, description |-> "d3", main_text |-> Absent]
Predictions == {PredFull, PredShort, PredBad}

\* What one GET of the autocomplete URL can end in.
DiscoveryFaults == {"timeout", "http_error", "unexpected"}
DiscoveryStatuses == {"OK", "ZERO_RESULTS", "REQUEST_DENIED"}
\* Variant: the client is built without a timeout and the provider never
\* answers, so the awaited GET never ends.
DiscoveryResponsesMut == {}
DiscoveryResponses ==
    [kind : DiscoveryFaults, status : {"-"}, predictions : {<<>>}]
    \cup [kind : {"json"}, status : DiscoveryStatuses \ {"OK"}, predictions : {<<>>}]
    \cup [kind : {"json"}, status : {"OK"}, predictions : SeqsUpTo(Predictions, MaxPred)]

\* What one GET of the location URL can end in: a fault, or a JSON object
\* of which any key may be missing or null.
DetailFaults == {"timeout", "http_error", "unexpected"}
DetailFieldValues(v) == {Absent, Null, v}
DetailResponses ==
    [kind : DetailFaults, address : {Absent}, place_id : {Absent}]
    \cup [kind : {"json"}, address : {Absent, "addr"},
          place_id : DetailFieldValues("pc")]

\* ------------------------------------------------------- geocode_location
\* prediction["place_id"], prediction["description"]: a missing key raises
\* KeyError, a null fails LocationOption's validation.
Malformed(p) == p.place_id \in {Absent, Null} \/ p.description \in {Absent, Null}

\* prediction.get("structured_formatting", {}).get("main_text", description)
DisplayName(p) == IF p.main_text = Absent THEN p.description ELSE p.main_text

\* Variant: the identifier is not copied into the option.
ToOptionMut(p) ==
    [place_id |-> "", formatted_address |-> p.description, name |-> DisplayName(p)]
ToOption(p) ==
    [place_id |-> p.place_id, formatted_address |-> p.description,
     name |-> DisplayName(p)]

\* The loop over predictions.
\* Variant: the candidates are collected in reverse order.
MapPredictionsMut(preds) == [i \in 1..Len(preds) |-> ToOption(preds[Len(preds) + 1 - i])]
MapPredictions(preds) == [i \in 1..Len(preds) |-> ToOption(preds[i])]

\* The body of the try block, given the provider's answer `up`: every
\* exception and every non-OK status ends in [].
ParseDiscovery(up) ==
    IF up.kind # "json" THEN <<>>
    ELSE IF up.status # "OK" THEN <<>>
    ELSE IF \E i \in 1..Len(up.predictions) : Malformed(up.predictions[i]) THEN <<>>
    ELSE MapPredictions(up.predictions)

\* geocode_location(query) with credential `key` and provider answer `up`:
\* whether it raised, what it returned, how many requests it sent.
\* Variant: a timeout is raised to the caller instead of returning [].
GeocodeReraise(query, key, up) ==
    IF IsBlank(query) THEN [raised |-> FALSE, results |-> <<>>, net |-> 0]
    ELSE IF ~key THEN [raised |-> TRUE, results |-> <<>>, net |-> 0]
    ELSE IF up.kind = "timeout" THEN [raised |-> TRUE, results |-> <<>>, net |-> 1]
    ELSE [raised |-> FALSE, results |-> ParseDiscovery(up), net |-> 1]
\* Variant: the request is sent a second time after a timeout.
GeocodeRetry(query, key, up) ==
    IF IsBlank(query) THEN [raised |-> FALSE, results |-> <<>>, net |-> 0]
    ELSE IF ~key THEN [raised |-> TRUE, results |-> <<>>, net |-> 0]
    ELSE [raised |-> FALSE, results |-> ParseDiscovery(up),
          net |-> IF up.kind = "timeout" THEN 2 ELSE 1]
\* Variant: the credential is tested before the blank query.
GeocodeMut(query, key, up) ==
    IF ~key THEN [raised |-> TRUE, results |-> <<>>, net |-> 0]
    ELSE IF IsBlank(query) THEN [raised |-> FALSE, results |-> <<>>, net |-> 0]
    ELSE [raised |-> FALSE, results |-> ParseDiscovery(up), net |-> 1]
Geocode(query, key, up) ==
    IF IsBlank(query) THEN [raised |-> FALSE, results |-> <<>>, net |-> 0]
    ELSE IF ~key THEN [raised |-> TRUE, results |-> <<>>, net |-> 0]
    ELSE [raised |-> FALSE, results |-> ParseDiscovery(up), net |-> 1]

\* ------------------------------------------------------------------ state
VARIABLES
    mode,       \* "interactive": one get_location_with_disambiguation call;
                \* "trip": one search_cabs request; "detail": one direct
                \* resolve_location_by_place_id call; "discover": one
                \* direct geocode_location call
    key,        \* GOOGLE_PLACES_API_KEY is set (read once at import)
    input,      \* the arguments of the call: a SearchRequest, or the
                \* location_query (source) and location_type (type) of an
                \* interactive call
    pc,         \* where the call stands
    role,       \* location_type of the running resolve call
    query,      \* location_query of the running resolve call
    depth,      \* recursion level of the running interactive call
    results,    \* what geocode_location returned to the running call
    offered,    \* options_dict of the pending choice prompt
    chosen,     \* the place_id handed to the Detail Resolver
    outcome,    \* per role, what the resolve call returned
    response,   \* what search_cabs returned
    log         \* every call, request, prompt and answer so far, in order

vars == <<mode, key, input, pc, role, query, depth, results, offered, chosen,
          outcome, response, log>>

\* ------------------------------------------- resolve_location_by_place_id
\* data.get(key, default)
JsonGet(v, default) == IF v = Absent THEN default ELSE v

\* LocationObject(...) built from the JSON object.
\* Variant: `data` is a module-level dict updated by each response, so a key
\* this response lacks keeps the value an earlier response gave it.
BuildLocationMut(place_id, up) ==
    LET earlier == {i \in 1..Len(log) : log[i].ev = "detail" /\ log[i].data # <<>>}
        kept == IF earlier = {} THEN ""
                ELSE log[CHOOSE i \in earlier : \A j \in earlier : j <= i].data[1].address
    IN  [address |-> JsonGet(up.address, kept), place_id |-> JsonGet(up.place_id, place_id)]
BuildLocation(place_id, up) ==
    [address |-> JsonGet(up.address, ""), place_id |-> JsonGet(up.place_id, place_id)]

\* resolve_location_by_place_id(place_id) with provider answer `up`: whether
\* it raised, what it returned, how many requests it sent.  Every exception
\* of the try block is caught by one of the three except clauses.
\* Variant: the timeout is not caught.
ResolveDetailReraise(place_id, up) ==
    IF place_id = "" THEN [raised |-> FALSE, location |-> <<>>, net |-> 0]
    ELSE IF up.kind = "timeout" THEN [raised |-> TRUE, location |-> <<>>, net |-> 1]
    ELSE IF up.kind # "json" THEN [raised |-> FALSE, location |-> <<>>, net |-> 1]
    ELSE [raised |-> FALSE, location |-> <<BuildLocation(place_id, up)>>, net |-> 1]
ResolveDetail(place_id, up) ==
    IF place_id = "" THEN [raised |-> FALSE, location |-> <<>>, net |-> 0]
    ELSE IF up.kind # "json" THEN [raised |-> FALSE, location |-> <<>>, net |-> 1]
    ELSE [raised |-> FALSE, location |-> <<BuildLocation(place_id, up)>>, net |-> 1]

\* ------------------------------------------------------------- the log
\* One entry of the log.  For a Discovery call n tells whether it returned no
\* candidate (0), one (1) or several (2), and data is the candidate when there
\* is exactly one; for a Detail Resolver call data is the record it returned,
\* if any, and for its request data is the provider's answer.
EventWith(ev, r, d, text, id, note, n, data) ==
    [ev |-> ev, role |-> r, depth |-> d, text |-> text, id |-> id, note |-> note,
     n |-> n, data |-> data]
Event(ev, r, d, text, id, note) == EventWith(ev, r, d, text, id, note, 0, <<>>)

\* A message: the f-string's template and what is formatted into it.
Msg(tmpl, type, text, name) == [tmpl |-> tmpl, type |-> type, text |-> text, name |-> name]
NoMsg == Msg("", "", <<>>, "")

\* What a resolve call returned: a location, a disambiguation request, an
\* error message, or a raised ValueError.
Outcome(kind, location, options, reason, message) ==
    [kind |-> kind, location |-> location, options |-> options,
     reason |-> reason, message |-> message]
NoOutcome == Outcome("none", <<>>, <<>>, "", NoMsg)

NotConfigured == Msg("Location service is not configured. Please contact administrator.",
                     "", <<>>, "")
Raised == Outcome("raised", <<>>, <<>>, "configuration_error", NotConfigured)

NoResponse == [status |-> "none", message |-> NoMsg, options |-> <<>>, cabs |-> 0]

\* How the log describes one geocode_location call.
DiscoveryNote(q, k, up) ==
    IF IsBlank(q) THEN "blank"
    ELSE IF ~k THEN "raised"
    ELSE IF up.kind # "json" THEN up.kind
    ELSE IF up.status # "OK" THEN "status"
    ELSE IF \E i \in 1..Len(up.predictions) : Malformed(up.predictions[i]) THEN "malformed"
    ELSE "ok"

\* The log entries of one geocode_location call: the call, then each request
\* it sent.
DiscoveryEvents(r, d, q, k, up) ==
    LET g == Geocode(q, k, up)
    IN  <<EventWith("discover", r, d, q, "", DiscoveryNote(q, k, up),
                    IF Len(g.results) >= 2 THEN 2 ELSE Len(g.results),
                    IF Len(g.results) = 1 THEN g.results ELSE <<>>)>>
        \o [c \in 1..g.net |-> Event("net", r, d, q, "", "autocomplete")]

\* The log entries of one resolve_location_by_place_id call.
DetailEvents(r, d, id, up) ==
    LET x == ResolveDetail(id, up)
    IN  <<EventWith("detail", r, d, <<>>, id,
                    IF x.location # <<>> THEN "ok" ELSE IF x.net = 0 THEN "empty" ELSE up.kind,
                    0, x.location)>>
        \o [c \in 1..x.net |-> EventWith("net", r, d, <<>>, id, "location", 0, <<up>>)]

\* --------------------------------------- get_location_with_disambiguation
\* `if not results` / `if len(results) == 1` / otherwise.
\* Variant: `len(results) <= 1` taken for no result.
BranchMut(res) == IF Len(res) <= 1 THEN "none" ELSE "many"
Branch(res) == IF Len(res) = 0 THEN "none" ELSE IF Len(res) = 1 THEN "single" ELSE "many"

\* loc = results[0]; the identifier the single match is resolved by.
SingleId(res) == res[1].place_id

\* return None, f"No locations found for {location_type}: {location_query}"
\* Variant: the detail-failure error is returned for no result.
NoResultsMut(type, q) ==
    Outcome("failed", <<>>, <<>>, "detail_resolution_failed",
            Msg("Failed to get details for", type, <<>>, ""))
NoResults(type, q) ==
    Outcome("failed", <<>>, <<>>, "no_results", Msg("No locations found for", type, q, ""))

\* return None, f"Failed to get details for {location_type}: '{loc.name}'. ..."
\* Variant: the `if not location` test is missing, (None, None) is returned.
SingleFailedMut(type, name) == Outcome("resolved", <<>>, <<>>, "", NoMsg)
SingleFailed(type, name) ==
    Outcome("failed", <<>>, <<>>, "detail_resolution_failed",
            Msg("Failed to get details for", type, <<>>, name))

\* return location, None
\* Variant: the error message is returned along with the location.
ResolvedMut(loc) ==
    Outcome("resolved", <<loc>>, <<>>, "", Msg("Failed to get details for", "", <<>>, ""))
Resolved(loc) == Outcome("resolved", <<loc>>, <<>>, "", NoMsg)

\* A dict assignment d[k] = v: a key keeps its first position and takes the
\* last value.
DictPut(d, k, v) ==
    IF \E i \in 1..Len(d) : d[i].key = k
    THEN [i \in 1..Len(d) |-> IF d[i].key = k THEN [key |-> k, title |-> v] ELSE d[i]]
    ELSE Append(d, [key |-> k, title |-> v])

RECURSIVE DictOf(_, _)
DictOf(d, res) ==
    IF res = <<>> THEN d
    ELSE DictOf(DictPut(d, Head(res).place_id,
                        [name |-> Head(res).name, address |-> Head(res).formatted_address]),
                Tail(res))

\* options_dict: one entry per place_id, then the "__CUSTOM__" entry.
OptionsDict(res) ==
    DictPut(DictOf(<<>>, res), CUSTOM,
            [name |-> "None of these - let me specify a different location", address |-> ""])

Keys(d) == {d[i].key : i \in 1..Len(d)}

\* The arguments of the recursive call.
RecurseType(type) == type
\* Variant: the recursive call is made with location_query again.
RecurseQueryMut(custom, original) == original
RecurseQuery(custom, original) == custom

\* Function entry: the logging before geocode_location is awaited.
I_Start ==
    /\ mode = "interactive" /\ pc = "START"
    /\ pc' = "DISCOVERING"
    /\ UNCHANGED <<mode, key, input, role, query, depth, results, offered, chosen,
                   outcome, response, log>>

\* results = await geocode_location(location_query), and the branch on it.
I_Discover ==
    /\ mode = "interactive" /\ pc = "DISCOVERING"
    /\ \E up \in DiscoveryResponses :
         LET g == Geocode(query, key, up)
             b == Branch(g.results)
         IN  /\ results' = g.results
             /\ log' = log \o DiscoveryEvents(role, depth, query, key, up)
                           \o (IF g.raised THEN <<Event("return", role, depth, <<>>, "", "raised")>>
                               ELSE IF b = "none"
                               THEN <<Event("return", role, depth, <<>>, "", "failed")>>
                               ELSE <<>>)
             /\ IF g.raised
                THEN /\ pc' = "RAISED"
                     /\ outcome' = [outcome EXCEPT ![role] = Raised]
                ELSE IF b = "none"
                THEN /\ pc' = "NO_RESULTS"
                     /\ outcome' = [outcome EXCEPT ![role] = NoResults(role, query)]
                ELSE /\ pc' = IF b = "single" THEN "RESOLVED_SINGLE" ELSE "AMBIGUOUS"
                     /\ UNCHANGED outcome
    /\ UNCHANGED <<mode, key, input, role, query, depth, offered, chosen, response>>

\* location = await resolve_location_by_place_id(loc.place_id) for the one match.
I_ResolveSingle ==
    /\ mode = "interactive" /\ pc = "RESOLVED_SINGLE"
    /\ \E up \in DetailResponses :
         LET id == SingleId(results)
             x == ResolveDetail(id, up)
         IN  /\ chosen' = id
             /\ IF x.location = <<>>
                THEN /\ pc' = "FAILED"
                     /\ outcome' = [outcome EXCEPT ![role] = SingleFailed(role, results[1].name)]
                ELSE /\ pc' = "RESOLVED"
                     /\ outcome' = [outcome EXCEPT ![role] = Resolved(x.location[1])]
             /\ log' = log \o DetailEvents(role, depth, id, up)
                           \o <<Event("return", role, depth, <<>>, id,
                                      IF x.location = <<>> THEN "failed" ELSE "resolved")>>
    /\ UNCHANGED <<mode, key, input, role, query, depth, results, offered, response>>

\* options_dict is built and the choice prompt is sent: ctx.elicit(...).
I_Present ==
    /\ mode = "interactive" /\ pc = "AMBIGUOUS"
    /\ offered' = OptionsDict(results)
    /\ log' = Append(log, Event("prompt", role, depth, query, "", "choice"))
    /\ pc' = "AWAITING_HUMAN_CHOICE"
    /\ UNCHANGED <<mode, key, input, role, query, depth, results, chosen, outcome, response>>

\* What `await ctx.elicit(...)` hands back (fastmcp): AcceptedElicitation,
\* whose data is the validated answer, or DeclinedElicitation or
\* CancelledElicitation, which have an action and no data attribute.
ChoiceResults(options) ==
    [action : {"accept"}, data : Keys(options)]
    \cup [action : {"decline", "cancel"}, data : {Absent}]
TextResults ==
    [action : {"accept"}, data : Texts]
    \cup [action : {"decline", "cancel"}, data : {<<>>}]

\* `response.data` can be read.
HasData(res) == res.action = "accept"

\* The AttributeError of reading `.data` where there is none.
NoDataAttribute ==
    Outcome("raised", <<>>, <<>>, "attribute_error",
            Msg("object has no attribute 'data'", "", <<>>, ""))

\* return None, f"No {location_type} location selected"
NoSelection(type) ==
    Outcome("failed", <<>>, <<>>, "no_selection", Msg("No location selected", type, <<>>, ""))

\* place_id = response.data: nothing, the sentinel (the second prompt is
\* sent), or one of the offered identifiers.
I_Choice ==
    /\ mode = "interactive" /\ pc = "AWAITING_HUMAN_CHOICE"
    /\ \E res \in ChoiceResults(offered) :
         IF ~HasData(res)
         THEN /\ pc' = "RAISED"
              /\ outcome' = [outcome EXCEPT ![role] = NoDataAttribute]
              /\ log' = log \o <<Event("answer", role, depth, <<>>, "", res.action),
                                 Event("return", role, depth, <<>>, "", "raised")>>
              /\ UNCHANGED chosen
         ELSE LET place_id == res.data
              IN  /\ chosen' = place_id
                  /\ IF place_id = NoData
                     THEN /\ pc' = "FAILED"
                          /\ outcome' = [outcome EXCEPT ![role] = NoSelection(role)]
                          /\ log' = log \o <<Event("answer", role, depth, <<>>, place_id, "choice"),
                                             Event("return", role, depth, <<>>, "", "failed")>>
                     ELSE IF place_id = CUSTOM
                     THEN /\ pc' = "AWAITING_REFINED_QUERY"
                          /\ UNCHANGED outcome
                          /\ log' = log \o <<Event("answer", role, depth, <<>>, place_id, "choice"),
                                             Event("prompt", role, depth, <<>>, "", "text")>>
                     ELSE /\ pc' = "DETAIL_RESOLVING"
                          /\ UNCHANGED outcome
                          /\ log' = Append(log, Event("answer", role, depth, <<>>, place_id, "choice"))
    /\ UNCHANGED <<mode, key, input, role, query, depth, results, offered, response>>

\* custom_location_query = custom_response.data: an empty text fails,
\* anything else is the query of the recursive call.
I_Refined ==
    /\ mode = "interactive" /\ pc = "AWAITING_REFINED_QUERY"
    /\ \E res \in TextResults :
         IF ~HasData(res)
         THEN /\ pc' = "RAISED"
              /\ outcome' = [outcome EXCEPT ![role] = NoDataAttribute]
              /\ log' = log \o <<Event("answer", role, depth, <<>>, "", res.action),
                                 Event("return", role, depth, <<>>, "", "raised")>>
              /\ UNCHANGED <<role, query, depth>>
         ELSE IF res.data = <<>>
         THEN /\ pc' = "FAILED"
              /\ outcome' = [outcome EXCEPT ![role] =
                     Outcome("failed", <<>>, <<>>, "no_custom_location",
                             Msg("No custom location provided", role, <<>>, ""))]
              /\ log' = log \o <<Event("answer", role, depth, <<>>, "", "text"),
                                 Event("return", role, depth, <<>>, "", "failed")>>
              /\ UNCHANGED <<role, query, depth>>
         ELSE /\ depth < MaxDepth
              /\ pc' = "DISCOVERING"
              /\ role' = RecurseType(role)
              /\ query' = RecurseQuery(res.data, query)
              /\ depth' = depth + 1
              /\ log' = Append(log, Event("answer", role, depth, res.data, "", "text"))
              /\ UNCHANGED outcome
    /\ UNCHANGED <<mode, key, input, results, offered, chosen, response>>

\* The identifier the selection is resolved by: place_id itself.
\* Variant: the first candidate is resolved, whatever was selected.
SelectedIdMut(place_id) == results[1].place_id
SelectedId(place_id) == place_id

\* location = await resolve_location_by_place_id(place_id) for the selection.
I_ResolveChosen ==
    /\ mode = "interactive" /\ pc = "DETAIL_RESOLVING"
    /\ \E up \in DetailResponses :
         LET id == SelectedId(chosen)
             x == ResolveDetail(id, up)
         IN  /\ IF x.location = <<>>
                THEN /\ pc' = "FAILED"
                     /\ outcome' = [outcome EXCEPT ![role] =
                            Outcome("failed", <<>>, <<>>, "detail_resolution_failed",
                                    Msg("Failed to resolve location", role, <<>>, ""))]
                ELSE /\ pc' = "RESOLVED"
                     /\ outcome' = [outcome EXCEPT ![role] = Resolved(x.location[1])]
             /\ log' = log \o DetailEvents(role, depth, id, up)
                           \o <<Event("return", role, depth, <<>>, id,
                                      IF x.location = <<>> THEN "failed" ELSE "resolved")>>
    /\ UNCHANGED <<mode, key, input, role, query, depth, results, offered, chosen, response>>

\* ------------------------------------------------------- resolve_location
\* resolve_location(text, role, explicit_identifier) is imported by server.py
\* and defined nowhere in the repository's files: section 4.4, stateless mode.

\* The numbered options of a DisambiguationRequest.
StatelessOptions(res) ==
    [i \in 1..Len(res) |->
        [option_number |-> i, name |-> res[i].name,
         address |-> res[i].formatted_address, identifier |-> res[i].place_id]]

NeedsDisambiguation(type, q, res) ==
    Outcome("disambiguation", <<>>, StatelessOptions(res), "", Msg("", type, q, ""))

DetailFailed(type) ==
    Outcome("failed", <<>>, <<>>, "detail_resolution_failed",
            Msg("Failed to resolve location", type, <<>>, ""))

\* ------------------------------------------------------ server.search_cabs
\* input.source_place_id / input.destination_place_id
\* Variant: destination_place_id is not handed on.
ExplicitIdMut(r) == IF r = "source" THEN input.source_place_id ELSE <<>>
ExplicitId(r) ==
    IF r = "source" THEN input.source_place_id ELSE input.destination_place_id

\* input.source / input.destination
TextOf(r) == IF r = "source" THEN input.source ELSE input.destination

\* `await resolve_location(input.<r>, "<r>", input.<r>_place_id)` is entered.
StartLeg(r) ==
    [pc |-> IF ExplicitId(r) # <<>> THEN "S_DETAIL" ELSE "S_DISCOVERING",
     role |-> r, query |-> TextOf(r),
     chosen |-> IF ExplicitId(r) # <<>> THEN ExplicitId(r)[1] ELSE "",
     response |-> NoResponse]

\* What search_cabs returns for good.
Return(status, message, options, cabs) ==
    [pc |-> "DONE", role |-> role, query |-> query, chosen |-> chosen,
     response |-> [status |-> status, message |-> message, options |-> options,
                   cabs |-> cabs]]

\* `except ValueError as e: return {"status": "error", "message": str(e)}`
\* Variant: no except clause, the ValueError leaves search_cabs.
OnValueErrorMut(o) == [Return("none", NoMsg, <<>>, 0) EXCEPT !.pc = "ABORTED"]
OnValueError(o) == Return("error", o.message, <<>>, 0)

\* The resolved leg is followed by the other leg, or by the date and time.
\* Variant: the destination leg is skipped.
AfterResolvedMut(r) ==
    [pc |-> "PARSE_DATETIME", role |-> r, query |-> query, chosen |-> chosen,
     response |-> NoResponse]
AfterResolved(r) ==
    IF r = "source" THEN StartLeg("destination")
    ELSE [pc |-> "PARSE_DATETIME", role |-> r, query |-> query, chosen |-> chosen,
          response |-> NoResponse]

\* The statements after `await resolve_location(...)`, for the leg of role r
\* that ended in o.
\* Variant: the `if <leg>_error` test is missing.
AfterLegMut(r, o) ==
    IF o.kind = "raised" THEN OnValueError(o)
    ELSE IF o.kind = "disambiguation"
    THEN Return("disambiguation_needed", o.message, o.options, 0)
    ELSE AfterResolved(r)
\* Variant: a source error does not return; the destination is resolved
\* too before anything is reported.
AfterLegGather(r, o) ==
    IF o.kind = "raised" THEN OnValueError(o)
    ELSE IF o.kind = "disambiguation"
    THEN Return("disambiguation_needed", o.message, o.options, 0)
    ELSE IF o.kind = "failed" /\ r = "destination" THEN Return("error", o.message, <<>>, 0)
    ELSE AfterResolved(r)
AfterLeg(r, o) ==
    IF o.kind = "raised" THEN OnValueError(o)
    ELSE IF o.kind = "disambiguation"
    THEN Return("disambiguation_needed", o.message, o.options, 0)
    ELSE IF o.kind = "failed" THEN Return("error", o.message, <<>>, 0)
    ELSE AfterResolved(r)

\* parse_pickup_datetime: the formats strptime is tried with.
DateFormats == {"%d-%m-%Y", "%Y-%m-%d"}
TimeFormats == {"%H:%M", "%I:%M %p", "%I:%M%p"}
\* A date or time string is modelled by the format it is written in.
DateTimes == {<<"%Y-%m-%d", "%H:%M">>, <<"other", "%H:%M">>, <<"%d-%m-%Y", "other">>}

\* Variant: the time is not validated.
ParsePickupMut(date, time) ==
    IF date \notin DateFormats THEN [ok |-> FALSE, message |-> Msg("Invalid date format", "", <<>>, date)]
    ELSE [ok |-> TRUE, message |-> NoMsg]
ParsePickup(date, time) ==
    IF date \notin DateFormats THEN [ok |-> FALSE, message |-> Msg("Invalid date format", "", <<>>, date)]
    ELSE IF time \notin TimeFormats THEN [ok |-> FALSE, message |-> Msg("Invalid time format", "", <<>>, time)]
    ELSE [ok |-> TRUE, message |-> NoMsg]

\* ------------------------------------------------ api_client.search_cabs
\* Most cabs one answer of the Search API lists.
MaxCabs == 2
BookingFaults == {"timeout", "http_status", "unexpected"}
BookingResponses ==
    [kind : BookingFaults, cabs : {0}] \cup [kind : {"json"}, cabs : 0..MaxCabs]

\* The ValueError api_client.search_cabs raises for a fault.
BookingError(kind) ==
    Msg(CASE kind = "timeout" -> "The cab search service is taking too long to respond."
          [] kind = "http_status" -> "Unable to search for cabs at the moment."
          [] OTHER -> "Something went wrong while searching for cabs.",
        "", <<>>, "")

\* ------------------------------------------------------------- the request
\* search_cabs is entered: the source leg begins.
T_Start ==
    /\ mode = "trip" /\ pc = "T_START"
    /\ LET n == StartLeg("source")
       IN  /\ pc' = n.pc /\ role' = n.role /\ query' = n.query /\ chosen' = n.chosen
    /\ UNCHANGED <<mode, key, input, depth, results, offered, outcome, response, log>>

\* resolve_location without an explicit identifier: Discovery, then the
\* branch on the number of candidates; search_cabs goes on with what the
\* call returned.
S_Discover ==
    /\ mode = "trip" /\ pc = "S_DISCOVERING"
    /\ \E up \in DiscoveryResponses :
         LET g == Geocode(query, key, up)
             b == Branch(g.results)
             o == IF g.raised THEN Raised
                  ELSE IF b = "none" THEN NoResults(role, query)
                  ELSE IF b = "many" THEN NeedsDisambiguation(role, query, g.results)
                  ELSE NoOutcome
             n == AfterLeg(role, o)
         IN  /\ results' = g.results
             /\ IF b = "single" /\ ~g.raised
                THEN /\ pc' = "S_DETAIL"
                     /\ chosen' = SingleId(g.results)
                     /\ log' = log \o DiscoveryEvents(role, 0, query, key, up)
                     /\ UNCHANGED <<outcome, response, role, query>>
                ELSE /\ outcome' = [outcome EXCEPT ![role] = o]
                     /\ pc' = n.pc /\ role' = n.role /\ query' = n.query
                     /\ chosen' = n.chosen /\ response' = n.response
                     /\ log' = log \o DiscoveryEvents(role, 0, query, key, up)
                                   \o <<Event("return", role, 0, <<>>, "", o.kind)>>
    /\ UNCHANGED <<mode, key, input, depth, offered>>

\* resolve_location's Detail Resolver call, for an explicit identifier or
\* for the one candidate; search_cabs goes on with what the call returned.
S_Detail ==
    /\ mode = "trip" /\ pc = "S_DETAIL"
    /\ \E up \in DetailResponses :
         LET x == ResolveDetail(chosen, up)
             o == IF x.location = <<>> THEN DetailFailed(role) ELSE Resolved(x.location[1])
             n == AfterLeg(role, o)
         IN  /\ outcome' = [outcome EXCEPT ![role] = o]
             /\ pc' = n.pc /\ role' = n.role /\ query' = n.query
             /\ chosen' = n.chosen /\ response' = n.response
             /\ log' = log \o DetailEvents(role, 0, chosen, up)
                           \o <<Event("return", role, 0, <<>>, chosen, o.kind)>>
    /\ UNCHANGED <<mode, key, input, depth, results, offered>>

\* pickup_time_ms = parse_pickup_datetime(input.date, input.time)
T_Parse ==
    /\ mode = "trip" /\ pc = "PARSE_DATETIME"
    /\ LET p == ParsePickup(input.date, input.time)
           n == IF p.ok THEN [Return("none", NoMsg, <<>>, 0) EXCEPT !.pc = "SEARCHING"]
                ELSE Return("error", p.message, <<>>, 0)
       IN  /\ pc' = n.pc /\ response' = n.response
           /\ log' = Append(log, Event("parse", "", 0, <<>>, "", IF p.ok THEN "ok" ELSE "failed"))
    /\ UNCHANGED <<mode, key, input, role, query, depth, results, offered, chosen, outcome>>

\* result = await api_client.search_cabs(payload), and the return.
T_Search ==
    /\ mode = "trip" /\ pc = "SEARCHING"
    /\ \E up \in BookingResponses :
         LET n == IF up.kind # "json"
                  THEN Return("no_cabs_found", BookingError(up.kind), <<>>, 0)
                  ELSE IF up.cabs = 0
                  THEN Return("no_cabs_found", Msg("No cabs are currently available", "", <<>>, ""),
                              <<>>, 0)
                  ELSE Return("found", NoMsg, <<>>, up.cabs)
         IN  /\ pc' = n.pc /\ response' = n.response
             /\ log' = Append(log, EventWith("net", "", 0, <<>>, up.kind, "search",
                                             up.cabs, <<>>))
    /\ UNCHANGED <<mode, key, input, role, query, depth, results, offered, chosen, outcome>>

\* ------------------------------------------------- a direct Detail caller
\* What a direct call of resolve_location_by_place_id gave its caller.
Returned(location) == Outcome(IF location = <<>> THEN "nothing" ELSE "record",
                              location, <<>>, "", NoMsg)
Escaped(kind) == Outcome("raised", <<>>, <<>>, kind, NoMsg)

\* location = await resolve_location_by_place_id(place_id), called again
\* with the same place_id afterwards.
D_Resolve ==
    /\ mode = "detail" /\ pc = "D_CALLING"
    /\ Cardinality({i \in 1..Len(log) : log[i].ev = "detail"}) < MaxCalls
    /\ \E up \in DetailResponses :
         LET x == ResolveDetail(chosen, up)
         IN  /\ pc' = IF x.raised THEN "RAISED" ELSE "D_CALLING"
             /\ outcome' = [outcome EXCEPT ![role] =
                    IF x.raised THEN Escaped(up.kind) ELSE Returned(x.location)]
             /\ log' = log \o DetailEvents(role, 0, chosen, up)
    /\ UNCHANGED <<mode, key, input, role, query, depth, results, offered, chosen, response>>

\* ---------------------------------------------- a direct Discovery caller
\* results = await geocode_location(query); the log keeps the provider's
\* answer to the request, when one was sent.
G_Discover ==
    /\ mode = "discover" /\ pc = "G_CALLING"
    /\ \E up \in DiscoveryResponses :
         LET g == Geocode(query, key, up)
         IN  /\ pc' = IF g.raised THEN "RAISED" ELSE "G_RETURNED"
             /\ results' = g.results
             /\ outcome' = [outcome EXCEPT ![role] =
                    IF g.raised THEN Escaped("configuration_error") ELSE @]
             /\ log' = [c \in 1..g.net |->
                          EventWith("reply", role, 0, query, "", up.status,
                                    Len(up.predictions), <<up>>)]
    /\ UNCHANGED <<mode, key, input, role, query, depth, offered, chosen, response>>

\* ------------------------------------------------------------ the system
\* SearchRequest.normalize_location: min_length=1 is checked on the raw text,
\* then the text is stripped.
TripTexts == {Strip(t) : t \in Texts \ {<<>>}}
ExplicitIds == {<<>>, <<"p1">>}

TripInputs ==
    {[source |-> s, destination |-> d, source_place_id |-> sp,
      destination_place_id |-> dp, date |-> dt[1], time |-> dt[2], type |-> ""] :
        s \in TripTexts, d \in TripTexts, sp \in ExplicitIds, dp \in ExplicitIds,
        dt \in DateTimes}

\* The place_id a direct caller passes: empty, or an identifier.
DetailIds == {"", "p1"}
DetailInputs ==
    {[source |-> <<>>, destination |-> <<>>, source_place_id |-> <<id>>,
      destination_place_id |-> <<>>, date |-> "", time |-> "", type |-> "source"] :
        id \in DetailIds}

InteractiveInputs ==
    {[source |-> q, destination |-> <<>>, source_place_id |-> <<>>,
      destination_place_id |-> <<>>, date |-> "", time |-> "", type |-> r] :
        q \in Texts, r \in Roles}

Init ==
    /\ key \in BOOLEAN
    /\ \/ /\ mode = "interactive"
          /\ input \in InteractiveInputs
          /\ pc = "START"
          /\ role = input.type
          /\ query = input.source
       \/ /\ mode = "trip"
          /\ input \in TripInputs
          /\ pc = "T_START"
          /\ role = "source"
          /\ query = <<>>
       \/ /\ mode = "detail"
          /\ input \in DetailInputs
          /\ pc = "D_CALLING"
          /\ role = input.type
          /\ query = <<>>
       \/ /\ mode = "discover"
          /\ input \in InteractiveInputs
          /\ pc = "G_CALLING"
          /\ role = input.type
          /\ query = input.source
    /\ depth = 0
    /\ results = <<>>
    /\ offered = <<>>
    /\ chosen = IF mode = "detail" THEN input.source_place_id[1] ELSE ""
    /\ outcome = [r \in Roles |-> NoOutcome]
    /\ response = NoResponse
    /\ log = <<>>

Next ==
    \/ I_Start
    \/ I_Discover
    \/ I_ResolveSingle
    \/ I_Present
    \/ I_Choice
    \/ I_Refined
    \/ I_ResolveChosen
    \/ T_Start
    \/ S_Discover
    \/ S_Detail
    \/ T_Parse
    \/ T_Search
    \/ D_Resolve
    \/ G_Discover

Spec == Init /\ [][Next]_vars

\* The same system where no await lasts forever: every request is answered
\* or times out (timeout=10.0, API_TIMEOUT) and the human answers every
\* prompt, so a step that can be taken is taken.
LiveSpec == Spec /\ WF_vars(Next)

\* ------------------------------------------------------------- properties
Idx == 1..Len(log)

\* The log entries of kind ev of the resolve call of role r, at level d.
Of(ev, r) == {i \in Idx : log[i].ev = ev /\ log[i].role = r}
At(ev, r, d) == {i \in Of(ev, r) : log[i].depth = d}

\* Empty or whitespace only.
AllSpaces(t) == \A k \in 1..Len(t) : t[k] = " "

\* The explicit identifier search_cabs was given for role r.
GivenId(r) == IF r = "source" THEN input.source_place_id ELSE input.destination_place_id

\* C1: a resolve call whose Discovery returned exactly one candidate has, when
\* it returns, invoked the Detail Resolver exactly once, after Discovery and
\* with that candidate's identifier; if the lookup produced a record the call
\* returned Resolved with exactly that record; it issued no prompt.
C1_SingleCandidateResolvedDirectly ==
    \A i \in Idx :
        (/\ log[i].ev = "discover"
         /\ log[i].n = 1
         /\ At("return", log[i].role, log[i].depth) # {}) =>
            LET r == log[i].role
                d == log[i].depth
                D == At("detail", r, d)
            IN  /\ Cardinality(D) = 1
                /\ \A k \in D :
                     /\ k > i
                     /\ log[k].id = log[i].data[1].place_id
                     /\ log[k].data # <<>> =>
                          /\ outcome[r].kind = "resolved"
                          /\ outcome[r].location = log[k].data
                /\ At("prompt", r, d) = {}

C1_Witness ==
    /\ mode = "interactive" /\ pc = "RESOLVED" /\ Len(results) = 1
    /\ outcome[role].kind = "resolved"

\* C2: a resolve call whose Discovery returned no candidate returns
\* Failed(no_results); the Detail Resolver is never invoked for it and the
\* level issues no prompt.
C2_ZeroCandidatesFail ==
    \A i \in Idx :
        (log[i].ev = "discover" /\ log[i].note # "raised" /\ log[i].n = 0) =>
            LET r == log[i].role
            IN  /\ outcome[r].kind = "failed"
                /\ outcome[r].reason = "no_results"
                /\ outcome[r].location = <<>>
                /\ At("return", r, log[i].depth) # {}
                /\ Of("detail", r) = {}
                /\ At("prompt", r, log[i].depth) = {}

C2_Witness ==
    /\ mode = "interactive" /\ pc = "NO_RESULTS"
    /\ \E i \in Idx : log[i].ev = "discover" /\ log[i].note = "ok" /\ log[i].n = 0

\* C3: in a trip request (stateless mode) a Discovery that returned N >= 2
\* candidates makes resolve return NeedsDisambiguation with exactly N options,
\* numbered 1..N, the n-th carrying the n-th candidate's identifier, which is
\* not empty; and NeedsDisambiguation is returned only after such a Discovery.
C3_StatelessDisambiguation ==
    mode = "trip" =>
        /\ \A i \in Idx :
             (log[i].ev = "discover" /\ log[i].n >= 2) =>
                LET o == outcome[log[i].role].options
                IN  /\ outcome[log[i].role].kind = "disambiguation"
                    /\ Len(results) >= 2
                    /\ Len(o) = Len(results)
                    /\ \A n \in 1..Len(o) :
                         /\ o[n].option_number = n
                         /\ o[n].identifier # ""
                         /\ o[n].identifier = results[n].place_id
                    /\ response.status = "disambiguation_needed"
                    /\ response.options = o
        /\ \A r \in Roles :
             outcome[r].kind = "disambiguation" =>
                \E i \in Of("discover", r) : log[i].n >= 2

C3_Witness ==
    /\ mode = "trip" /\ pc = "DONE"
    /\ outcome["destination"].kind = "disambiguation"
    /\ Len(outcome["destination"].options) = 3

\* C4: a leg of a trip request that was given an explicit identifier never
\* invokes Discovery, whatever its text is; the Detail Resolver is invoked
\* with that identifier, once, and with no other.
C4_ExplicitIdentifierSkipsDiscovery ==
    mode = "trip" =>
        \A r \in Roles :
            GivenId(r) # <<>> =>
                /\ Of("discover", r) = {}
                /\ \A k \in Of("detail", r) : log[k].id = GivenId(r)[1]
                /\ Cardinality(Of("detail", r)) <= 1
                /\ outcome[r].kind # "none" => Cardinality(Of("detail", r)) = 1

C4_Witness ==
    /\ mode = "trip"
    /\ input.destination_place_id # <<>> /\ input.destination # <<>>
    /\ input.source_place_id = <<>>
    /\ outcome["destination"].kind = "resolved"

\* C5: in an interactive call every refined query that is not empty is
\* followed by exactly one Discovery at the next recursion level, made with
\* the refined text, and every level runs under the role of the original call.
C5_RefinedQueryReentersDiscovery ==
    mode = "interactive" =>
        /\ role = input.type
        /\ \A i \in Idx : log[i].role = input.type
        /\ \A i \in Idx :
             (log[i].ev = "answer" /\ log[i].note = "text" /\ log[i].text # <<>>) =>
                LET d == log[i].depth
                    D == {j \in Idx : log[j].ev = "discover" /\ log[j].depth = d + 1}
                IN  /\ Cardinality(D) <= 1
                    /\ \A j \in D : j > i /\ log[j].text = log[i].text
                    /\ D = {} => (pc = "DISCOVERING" /\ depth = d + 1 /\ query = log[i].text)

C5_Witness ==
    /\ mode = "interactive" /\ depth = 2 /\ pc = "AMBIGUOUS"
    /\ \E i \in Idx : log[i].ev = "answer" /\ log[i].depth = 0 /\ log[i].text # query

\* The message of the ValueError geocode_location raises.
ConfigurationMessage ==
    [tmpl |-> "Location service is not configured. Please contact administrator.",
     type |-> "", text |-> <<>>, name |-> ""]

\* C6 as claimed: with the credential missing, every resolve call that goes
\* to Discovery fails with the ConfigurationError, whatever its text is.
C6_AsClaimed ==
    ~key =>
        \A i \in Idx :
            log[i].ev = "discover" =>
                /\ log[i].note = "raised"
                /\ outcome[log[i].role].kind = "raised"

\* C6, amended: with the credential missing, a resolve call that goes to
\* Discovery sends no request at all; it fails with the ConfigurationError
\* when its text is not blank, and returns Failed(no_results) when its text is
\* empty or whitespace only.
C6_MissingCredential ==
    ~key =>
        /\ \A i \in Idx : ~(log[i].ev = "net" /\ log[i].note = "autocomplete")
        /\ \A i \in Idx :
             log[i].ev = "discover" =>
                LET r == log[i].role
                IN  /\ Of("net", r) = {}
                    /\ IF AllSpaces(log[i].text)
                       THEN /\ log[i].note = "blank"
                            /\ outcome[r].kind = "failed"
                            /\ outcome[r].reason = "no_results"
                       ELSE /\ log[i].note = "raised"
                            /\ outcome[r].kind = "raised"
                            /\ outcome[r].message = ConfigurationMessage

C6_Witness ==
    /\ ~key /\ mode = "interactive" /\ pc = "RAISED"
    /\ outcome[role].kind = "raised" /\ ~AllSpaces(query)

\* C7 as claimed: a ConfigurationError raised in a leg leaves search_cabs as
\* an exception: nothing is returned to the caller.
C7_AsClaimed ==
    (mode = "trip" /\ \E r \in Roles : outcome[r].kind = "raised") =>
        response.status = "none"

\* C7, amended: a ConfigurationError raised in a leg ends the trip request
\* there (nothing is called after it), and search_cabs returns it as
\* status=error with the configuration message; every request that ends,
\* whatever fault it met, ends in a returned payload.
C7_ConfigurationErrorReturned ==
    mode = "trip" =>
        /\ \A r \in Roles :
             outcome[r].kind = "raised" =>
                /\ pc = "DONE"
                /\ response.status = "error"
                /\ response.message = ConfigurationMessage
                /\ log[Len(log)].ev = "return" /\ log[Len(log)].role = r
                /\ Of("net", "") = {}
        /\ pc \in {"T_START", "S_DISCOVERING", "S_DETAIL", "PARSE_DATETIME", "SEARCHING", "DONE"}
        /\ pc = "DONE" =>
             response.status \in {"error", "disambiguation_needed", "no_cabs_found", "found"}
        /\ \A i \in Idx :
             (log[i].ev \in {"discover", "detail"}
                /\ log[i].note \in {"timeout", "http_error", "unexpected", "status", "malformed"}) =>
                    (pc = "DONE" /\ response.status = "error")
        /\ \A i \in Idx :
             (log[i].ev = "net" /\ log[i].note = "search") => pc = "DONE"

C7_Witness ==
    /\ mode = "trip" /\ pc = "DONE"
    /\ outcome["source"].kind = "resolved" /\ outcome["destination"].kind = "raised"
    /\ response.status = "error"

\* C8: the booking search is called only after both resolve calls have
\* returned, and only when both returned Resolved.
C8_BookingAfterBothResolved ==
    mode = "trip" =>
        /\ pc = "SEARCHING" => \A r \in Roles : outcome[r].kind = "resolved"
        /\ \A i \in Idx :
             (log[i].ev = "net" /\ log[i].note = "search") =>
                \A r \in Roles :
                    /\ outcome[r].kind = "resolved"
                    /\ \E j \in At("return", r, 0) : j < i /\ log[j].note = "resolved"
        /\ (\E r \in Roles : outcome[r].kind # "resolved") =>
                \A i \in Idx : ~(log[i].ev = "net" /\ log[i].note = "search")

C8_Witness ==
    /\ mode = "trip" /\ pc = "DONE" /\ response.status = "found"
    /\ \E i \in Idx : log[i].ev = "net" /\ log[i].note = "search"

\* C9 as claimed: each of the two resolve calls is started and returns,
\* whatever the other one ends in.
C9_AsClaimed ==
    (mode = "trip" /\ pc = "DONE") => \A r \in Roles : At("return", r, 0) # {}

\* C9, amended: the two resolve calls run one after the other.  The source
\* call is always started and returns; the destination call is started only
\* after the source call returned Resolved, and then returns before the
\* request ends; when the source call ends otherwise the destination call is
\* never started.
C9_SourceThenDestination ==
    mode = "trip" =>
        /\ pc = "DONE" => At("return", "source", 0) # {}
        /\ \A i \in Idx :
             log[i].role = "destination" =>
                \E j \in At("return", "source", 0) : j < i /\ log[j].note = "resolved"
        /\ (pc = "DONE" /\ outcome["source"].kind = "resolved") =>
                /\ At("return", "destination", 0) # {}
                /\ outcome["destination"].kind # "none"
        /\ outcome["source"].kind \notin {"none", "resolved"} =>
                /\ pc = "DONE"
                /\ outcome["destination"].kind = "none"
                /\ \A i \in Idx : log[i].role # "destination"

C9_Witness ==
    /\ mode = "trip" /\ pc = "DONE"
    /\ outcome["source"].kind = "resolved" /\ outcome["destination"].kind = "failed"

\* C10: a Discovery that met a fault (timeout, transport or status error,
\* non-OK status payload, malformed prediction, anything unexpected) returns
\* no candidate, and the resolve call then returns what it returns for a
\* Discovery that found nothing: Failed(no_results) with a message made of
\* the role and the text alone.
C10_DiscoveryFaultsLookLikeNoResults ==
    \A i \in Idx :
        (/\ log[i].ev = "discover"
         /\ \/ log[i].note \in {"timeout", "http_error", "unexpected", "status", "malformed"}
            \/ log[i].note = "ok" /\ log[i].n = 0) =>
            LET r == log[i].role
                m == [tmpl |-> "No locations found for", type |-> r, text |-> log[i].text,
                      name |-> ""]
            IN  /\ log[i].n = 0
                /\ outcome[r] = [kind |-> "failed", location |-> <<>>, options |-> <<>>,
                                 reason |-> "no_results", message |-> m]
                /\ mode = "trip" =>
                     response = [status |-> "error", message |-> m, options |-> <<>>, cabs |-> 0]

C10_Witness ==
    /\ mode = "interactive" /\ pc = "NO_RESULTS" /\ depth = 1
    /\ \E i \in Idx : log[i].ev = "discover" /\ log[i].note = "timeout"

\* C11: a Discovery called with an empty or whitespace-only text returns no
\* candidate and sends no request, whether or not the credential is set; the
\* resolve call then returns Failed(no_results) and never calls the Detail
\* Resolver.
C11_BlankQueryShortCircuits ==
    \A i \in Idx :
        (log[i].ev = "discover" /\ AllSpaces(log[i].text)) =>
            LET r == log[i].role
                d == log[i].depth
            IN  /\ log[i].note = "blank"
                /\ log[i].n = 0
                /\ \A j \in At("net", r, d) : log[j].note # "autocomplete"
                /\ (i < Len(log)) => log[i + 1].ev = "return"
                /\ outcome[r].kind = "failed"
                /\ outcome[r].reason = "no_results"
                /\ Of("detail", r) = {}

C11_Witness ==
    /\ key /\ mode = "interactive" /\ pc = "NO_RESULTS"
    /\ query = <<" ">>
    /\ log[Len(log) - 1].ev = "discover" /\ log[Len(log) - 1].note = "blank"

\* C12: resolve_location_by_place_id never raises.  Called with an empty
\* identifier it returns nothing and sends no request; called with an
\* identifier it sends one request, and returns nothing on a timeout, an HTTP
\* error or any other exception, a record otherwise.  A resolve call whose
\* lookup returned nothing fails with detail_resolution_failed whatever the
\* cause was.
C12_DetailNeverRaises ==
    /\ \A i \in Idx :
         log[i].ev = "detail" =>
            LET sent == i < Len(log) /\ log[i + 1].ev = "net"
                              /\ log[i + 1].note = "location" /\ log[i + 1].id = log[i].id
            IN  /\ log[i].note \in {"ok", "empty", "timeout", "http_error", "unexpected"}
                /\ (log[i].id = "") <=> (log[i].note = "empty")
                /\ log[i].note = "empty" => (log[i].data = <<>> /\ ~sent)
                /\ log[i].note \in {"timeout", "http_error", "unexpected"} =>
                        (log[i].data = <<>> /\ sent)
                /\ log[i].note = "ok" => (log[i].data # <<>> /\ sent)
    /\ mode = "detail" =>
         /\ pc = "D_CALLING"
         /\ outcome[role].kind \in {"none", "nothing", "record"}
         /\ outcome[role].kind = "record" <=>
                (log # <<>> /\ \E i \in Idx : log[i].ev = "detail" /\ log[i].note = "ok"
                                  /\ \A j \in Idx : (j > i => log[j].ev # "detail"))
    /\ mode # "detail" =>
         \A i \in Idx :
            (log[i].ev = "detail" /\ log[i].data = <<>>) =>
                /\ outcome[log[i].role].kind = "failed"
                /\ outcome[log[i].role].reason = "detail_resolution_failed"

C12_Witness ==
    /\ mode = "detail" /\ pc = "D_CALLING" /\ outcome[role].kind = "nothing"
    /\ \E i \in Idx : log[i].ev = "detail" /\ log[i].note = "timeout"
    /\ \E i \in Idx : log[i].ev = "detail" /\ log[i].note = "http_error"

\* The empty identifier: nothing is returned and nothing is sent.
C12_EmptyIdentifier ==
    /\ mode = "detail" /\ chosen = "" /\ outcome[role].kind = "nothing"
    /\ log # <<>> /\ \A i \in Idx : log[i].ev = "detail" /\ log[i].note = "empty"

\* C13: whichever way a resolve call came to the Detail Resolver (explicit
\* identifier, single candidate, the human's selection), a lookup that
\* returned nothing is the last thing the call does: it returns
\* Failed(detail_resolution_failed) with no record, and no Discovery, prompt or
\* second lookup follows.  Resolved is returned only with the record a lookup
\* built.
C13_DetailFailureFails ==
    mode # "detail" =>
        /\ \A i \in Idx :
             (log[i].ev = "detail" /\ log[i].data = <<>>) =>
                LET r == log[i].role
                IN  /\ outcome[r].kind = "failed"
                    /\ outcome[r].reason = "detail_resolution_failed"
                    /\ outcome[r].location = <<>>
                    /\ \A j \in Of("discover", r) \cup Of("prompt", r) \cup Of("detail", r) :
                            j <= i
                    /\ \E j \in Of("return", r) : j > i /\ log[j].note = "failed"
                    /\ pc \in {"FAILED", "DONE"}
        /\ \A r \in Roles :
             outcome[r].kind = "resolved" =>
                /\ outcome[r].location # <<>>
                /\ \E i \in Of("detail", r) : log[i].data = outcome[r].location

C13_Witness ==
    /\ mode = "interactive" /\ pc = "FAILED"
    /\ outcome[role].reason = "detail_resolution_failed"
    /\ \E i \in Idx : log[i].ev = "answer" /\ log[i].id = chosen /\ chosen = "p2"
    /\ \E i \in Idx : log[i].ev = "detail" /\ log[i].note = "http_error"

\* C14: what a resolve call returns has exactly one of its three parts
\* populated: the location (Resolved), the options (NeedsDisambiguation) or
\* the error message (Failed); the populated part is the one its kind names,
\* and the interactive call never returns options.
C14_ExactlyOneVariant ==
    mode # "detail" =>
        \A r \in Roles :
            outcome[r].kind \notin {"none", "raised"} =>
                LET o == outcome[r]
                    parts == {<<"resolved", o.location # <<>>>>,
                              <<"disambiguation", o.options # <<>>>>,
                              <<"failed", o.message.tmpl # "">>}
                IN  /\ Cardinality({p \in parts : p[2]}) = 1
                    /\ \A p \in parts : p[2] <=> (o.kind = p[1])
                    /\ Len(o.location) <= 1
                    /\ mode = "interactive" => o.options = <<>>
                    /\ \E i \in Of("return", r) : log[i].note = o.kind

C14_Witness ==
    /\ mode = "interactive" /\ pc = "RESOLVED" /\ Len(results) >= 2
    /\ outcome[role].location # <<>> /\ outcome[role].message.tmpl = ""

C16_AsClaimed ==
    (mode = "interactive" /\ pc = "AWAITING_HUMAN_CHOICE") =>
        /\ Len(results) >= 2
        /\ Len(offered) = Len(results) + 1
        /\ \A n \in 1..Len(results) : offered[n].key = results[n].place_id
        /\ offered[Len(offered)].key = CUSTOM

\* C17: a selected candidate is an identifier of the prompt just answered and
\* of one of Discovery's candidates; the Detail Resolver is then called once,
\* with that identifier, and nothing else is called: no Discovery, no prompt.
\* Where Discovery returned several candidates the Detail Resolver is called
\* only after such a selection.
C17_SelectionResolved ==
    mode = "interactive" =>
        /\ \A i \in Idx :
             (log[i].ev = "answer" /\ log[i].note = "choice" /\ log[i].id # CUSTOM) =>
                LET r == log[i].role
                    D == Of("detail", r)
                IN  /\ log[i - 1].ev = "prompt" /\ log[i - 1].note = "choice"
                    /\ log[i - 1].depth = log[i].depth
                    /\ log[i].id \in Keys(offered) \ {CUSTOM}
                    /\ \E k \in 1..Len(results) : results[k].place_id = log[i].id
                    /\ \A j \in Of("discover", r) \cup Of("prompt", r) : j < i
                    /\ Cardinality(D) <= 1
                    /\ \A k \in D : k = i + 1 /\ log[k].id = log[i].id
                    /\ D = {} <=> pc = "DETAIL_RESOLVING"
                    /\ D = {} => chosen = log[i].id
        /\ \A k \in Idx : \A i \in Idx :
             (/\ log[k].ev = "detail" /\ log[i].ev = "discover"
              /\ log[i].depth = log[k].depth /\ log[i].n >= 2) =>
                (/\ k > i + 2
                 /\ log[k - 1].ev = "answer" /\ log[k - 1].note = "choice"
                 /\ log[k - 1].id = log[k].id)

C17_Witness ==
    /\ mode = "interactive" /\ pc = "RESOLVED" /\ depth = 1
    /\ Len(results) = 3 /\ chosen = results[2].place_id /\ chosen # results[1].place_id
    /\ \E i \in Idx : log[i].ev = "detail" /\ log[i].id = chosen

\* C18 as claimed: when the human declines the choice prompt the call returns
\* Failed(no_selection); the Detail Resolver is not called, and no prompt and
\* no Discovery follow.
C18_AsClaimed ==
    \A i \in Idx :
        (/\ log[i].ev = "answer" /\ log[i].note = "decline"
         /\ log[i - 1].ev = "prompt" /\ log[i - 1].note = "choice") =>
            LET r == log[i].role
            IN  /\ outcome[r].kind = "failed"
                /\ outcome[r].reason = "no_selection"
                /\ Of("detail", r) = {}
                /\ \A j \in Of("prompt", r) \cup Of("discover", r) : j < i

\* The control state of an interactive call, in the names of the state
\* machine: a call that returned the single candidate's record is in
\* RESOLVED_SINGLE, a call that returned an error or raised the
\* ConfigurationError is in a Failed variant, a call that another exception
\* left is in none of the machine's states.
ControlState ==
    IF pc = "RESOLVED" /\ Len(results) = 1 THEN "RESOLVED_SINGLE"
    ELSE IF pc = "NO_RESULTS" THEN "NO_RESULTS"
    ELSE IF pc = "FAILED" THEN "FAILED"
    ELSE IF pc = "RAISED"
         THEN (IF outcome[role].reason = "configuration_error" THEN "FAILED" ELSE "ABORTED")
    ELSE pc

ListedTransitions ==
    {<<"START", "DISCOVERING">>,
     <<"DISCOVERING", "RESOLVED_SINGLE">>, <<"DISCOVERING", "AMBIGUOUS">>,
     <<"DISCOVERING", "NO_RESULTS">>,
     <<"AMBIGUOUS", "AWAITING_HUMAN_CHOICE">>,
     <<"AWAITING_HUMAN_CHOICE", "DETAIL_RESOLVING">>,
     <<"AWAITING_HUMAN_CHOICE", "AWAITING_REFINED_QUERY">>,
     <<"DETAIL_RESOLVING", "RESOLVED">>,
     <<"AWAITING_REFINED_QUERY", "DISCOVERING">>}

TerminalStates == {"RESOLVED", "NO_RESULTS", "FAILED"}

\* C19 as claimed: every step of an interactive call that changes the control
\* state is one of the listed transitions or enters a Failed variant; no step
\* leaves RESOLVED, NO_RESULTS or a Failed variant; the refined-query prompt
\* is sent only by the step that takes the sentinel selection.
C19_AsClaimed ==
    [][mode = "interactive" =>
        /\ \/ ControlState' = ControlState
           \/ <<ControlState, ControlState'>> \in ListedTransitions
           \/ ControlState \notin TerminalStates /\ ControlState' = "FAILED"
        /\ ControlState \in TerminalStates => UNCHANGED vars
        /\ (Len(log') > Len(log) /\ log'[Len(log')].ev = "prompt"
                /\ log'[Len(log')].note = "text") =>
             (/\ ControlState = "AWAITING_HUMAN_CHOICE"
              /\ ControlState' = "AWAITING_REFINED_QUERY"
              /\ log'[Len(log') - 1].ev = "answer"
              /\ log'[Len(log') - 1].id = CUSTOM)]_vars

\* The requests sent so far: all, and those of one kind.
Requests == {i \in Idx : log[i].ev = "net"}
RequestsOf(note) == {i \in Requests : log[i].note = note}

\* C20: nothing is sent twice.  A Discovery call sends at most one request,
\* and a resolve call makes one Discovery call per recursion level; a Detail
\* Resolver call sends at most one request, and a resolve call makes at most
\* one such call; each request belongs to the call logged right before it.
\* After a Discovery or Detail Resolver call that met a fault the resolve call
\* sends nothing more.  A trip request sends at most one booking search.
C20_NoRetries ==
    /\ \A i \in Requests :
         /\ log[i].note \in {"autocomplete", "location", "search"}
         /\ log[i].note = "autocomplete" =>
                (/\ log[i - 1].ev = "discover" /\ log[i - 1].text = log[i].text
                 /\ log[i - 1].role = log[i].role /\ log[i - 1].depth = log[i].depth)
         /\ log[i].note = "location" =>
                (/\ log[i - 1].ev = "detail" /\ log[i - 1].id = log[i].id
                 /\ log[i - 1].role = log[i].role)
    /\ mode # "detail" =>
         \A r \in Roles :
            /\ \A d \in 0..depth :
                 /\ Cardinality(At("discover", r, d)) <= 1
                 /\ Cardinality({i \in At("net", r, d) : log[i].note = "autocomplete"}) <= 1
            /\ Cardinality(Of("detail", r)) <= 1
            /\ Cardinality({i \in Of("net", r) : log[i].note = "location"}) <= 1
    /\ \A i \in Idx :
         (/\ log[i].ev \in {"discover", "detail"}
          /\ log[i].note \in {"timeout", "http_error", "unexpected", "status", "malformed"}) =>
            \A j \in Requests :
                (j > i + 1 /\ log[j].role = log[i].role) =>
                    (mode = "detail" /\ log[j - 1].ev = "detail" /\ j - 1 > i)
    /\ Cardinality(RequestsOf("search")) <= 1
    /\ RequestsOf("search") # {} => (mode = "trip" /\ pc = "DONE")

C20_Witness ==
    /\ mode = "interactive" /\ pc = "NO_RESULTS" /\ depth = 2
    /\ log[Len(log) - 2].ev = "discover" /\ log[Len(log) - 2].note = "timeout"
    /\ Cardinality(RequestsOf("autocomplete")) = 3

\* An interactive call is over: it returned or an exception left it.
Ended == pc \in {"RESOLVED", "NO_RESULTS", "FAILED", "RAISED"}

\* The human declined or cancelled a prompt instead of answering it.
Unanswered == \E i \in Idx : log[i].ev = "answer" /\ log[i].note \in {"decline", "cancel"}

\* The "none of these" selections made so far.
SentinelSelections == {i \in Idx : log[i].ev = "answer" /\ log[i].id = CUSTOM}

C22_AsClaimed ==
    \A i \in Idx :
        (log[i].ev = "detail" /\ i < Len(log) /\ log[i + 1].ev = "net"
            /\ log[i + 1].data[1].kind = "json") =>
            LET up == log[i + 1].data[1]
            IN  /\ log[i].data # <<>>
                /\ log[i].data[1].place_id # Null
                /\ log[i].data[1].place_id =
                        IF up.place_id \in {Absent, Null} THEN log[i].id ELSE up.place_id

\* What the provider answered to the direct geocode_location call, when the
\* answer was a well-formed OK list of predictions.
Replies == {i \in Idx : log[i].ev = "reply" /\ log[i].note = "OK"
                        /\ \A n \in 1..Len(log[i].data[1].predictions) :
                              ~Malformed(log[i].data[1].predictions[n])}

\* C23: from a successful answer of K predictions geocode_location returns
\* exactly K candidates in the provider's order; the n-th candidate has the
\* n-th prediction's place_id and description, and for its name the
\* prediction's main_text when there is one, its description otherwise.
C23_CandidatesMirrorPredictions ==
    \A i \in Replies :
        LET preds == log[i].data[1].predictions
        IN  /\ Len(results) = Len(preds)
            /\ \A n \in 1..Len(preds) :
                  /\ results[n].place_id = preds[n].place_id
                  /\ results[n].formatted_address = preds[n].description
                  /\ results[n].name = IF preds[n].main_text = Absent
                                       THEN preds[n].description
                                       ELSE preds[n].main_text

C23_Witness ==
    /\ mode = "discover" /\ pc = "G_RETURNED"
    /\ \E i \in Replies : log[i].data[1].predictions = <<PredShort, PredFull, PredShort>>
    /\ Len(results) = 3
    /\ results[1].name = "d2" /\ results[2].name = "m1"

\* The answers to the refined-query prompt that carry no query: an empty
\* text, or no text at all.
EmptyRefinements ==
    {i \in Idx : /\ log[i].ev = "answer" /\ i > 1
                 /\ log[i - 1].ev = "prompt" /\ log[i - 1].note = "text"
                 /\ \/ log[i].note \in {"decline", "cancel"}
                    \/ log[i].note = "text" /\ log[i].text = <<>>}

\* C24 as claimed: after a "none of these" selection, an empty answer or no
\* answer to the refined-query prompt makes the call return a failure at
\* once: no Discovery, no Detail lookup and no prompt follow.
C24_AsClaimed ==
    \A i \in EmptyRefinements :
        /\ outcome[log[i].role].kind = "failed"
        /\ \A j \in Idx : j > i => log[j].ev = "return"

\* The legs of a trip request that ended in a disambiguation request or a
\* resolution error.
Unresolved == {r \in Roles : outcome[r].kind \in {"disambiguation", "failed", "raised"}}

\* C25: search_cabs resolves the source before the destination: no
\* destination lookup is made unless the source is Resolved, so at most one
\* leg ends unresolved, the response's disambiguation request or error is
\* that leg's, and it is the source's whenever the source is not Resolved.
C25_OneLegReported ==
    mode = "trip" =>
        /\ Cardinality(Unresolved) <= 1
        /\ \A i \in Idx :
              (log[i].role = "destination" /\ log[i].ev \in {"discover", "detail", "net"})
                  => outcome["source"].kind = "resolved"
        /\ pc = "DONE" =>
              /\ \A r \in Unresolved :
                    /\ response.status = IF outcome[r].kind = "disambiguation"
                                         THEN "disambiguation_needed" ELSE "error"
                    /\ response.message = outcome[r].message
                    /\ response.options = outcome[r].options
              /\ response.status = "disambiguation_needed" => Unresolved # {}
              /\ outcome["source"].kind # "resolved" => Unresolved = {"source"}

C25_Witness ==
    /\ mode = "trip" /\ pc = "DONE"
    /\ input.source = input.destination
    /\ outcome["source"].kind = "disambiguation"
    /\ response.status = "disambiguation_needed"
    /\ response.options = outcome["source"].options
    /\ \A i \in Idx : log[i].role # "destination"

C25_DestinationReported ==
    /\ mode = "trip" /\ pc = "DONE"
    /\ Unresolved = {"destination"}
    /\ response.status = "disambiguation_needed"
    /\ response.message = outcome["destination"].message

\* C26: the pickup date and time are parsed only after both legs returned
\* Resolved, and parse exactly when written in a supported format.  When they
\* do not parse the response is status error and the Search API is never
\* called.  The Search API is called only after they parsed, and the request
\* then ends in a response: no_cabs_found with no cab when the call failed or
\* listed no cab, otherwise every cab the answer listed.
C26_ParseThenSearch ==
    mode = "trip" =>
        /\ \A i \in Idx :
              log[i].ev = "parse" =>
                 /\ \A r \in Roles :
                       \E j \in At("return", r, 0) : j < i /\ log[j].note = "resolved"
                 /\ log[i].note = "ok" <=>
                       (input.date \in DateFormats /\ input.time \in TimeFormats)
                 /\ log[i].note = "failed" =>
                       /\ pc = "DONE" /\ response.status = "error"
                       /\ response.cabs = 0
                       /\ RequestsOf("search") = {}
        /\ \A i \in RequestsOf("search") :
              /\ \E j \in Idx : j < i /\ log[j].ev = "parse" /\ log[j].note = "ok"
              /\ pc = "DONE"
              /\ response.status =
                    IF log[i].id = "json" /\ log[i].n > 0 THEN "found" ELSE "no_cabs_found"
              /\ response.cabs = IF log[i].id = "json" THEN log[i].n ELSE 0
        /\ pc = "SEARCHING" => \E j \in Idx : log[j].ev = "parse" /\ log[j].note = "ok"

C26_Witness ==
    /\ mode = "trip" /\ pc = "DONE"
    /\ \E i \in RequestsOf("search") : log[i].id = "timeout"
    /\ response.status = "no_cabs_found"
    /\ response.message = BookingError("timeout")

C26_ParseFailure ==
    /\ mode = "trip" /\ pc = "DONE"
    /\ input.date \in DateFormats /\ input.time \notin TimeFormats
    /\ \E i \in Idx : log[i].ev = "parse" /\ log[i].note = "failed"
    /\ response.status = "error"

====
